---- MODULE Spec2Model ----
(***************************************************************************)
(* Model of discover_config.py, the discovery script that analyses a       *)
(* must-gather tree and writes a must-gather-clean configuration.          *)
(*                                                                         *)
(* The script is single-threaded.  Each discovery pass is a loop over the  *)
(* paths a glob yields; one action models one iteration of such a loop.    *)
(* pathlib's glob yields directory entries in the order the file system    *)
(* lists them, which the script does not control: an iteration picks any   *)
(* path the current glob has not yielded yet.                              *)
(*                                                                         *)
(* Strings are TLA+ strings; the string functions the script uses          *)
(* (startswith, endswith, lower, strip, sorted, the 04d format) are        *)
(* computed character by character.                                        *)
(***************************************************************************)
EXTENDS Integers, Sequences, FiniteSets, TLC

(***************************************************************************)
(* Python strings                                                          *)
(***************************************************************************)

\* The characters that occur in the model's strings, in code-point order.
Alphabet == " -./0123456789ABCDEFGHIJKLMNOPQRSTUVWXYZ_abcdefghijklmnopqrstuvwxyz"

UpperCase == "ABCDEFGHIJKLMNOPQRSTUVWXYZ"
LowerCase == "abcdefghijklmnopqrstuvwxyz"

CharAt(s, i) == SubSeq(s, i, i)

\* Position of the one-character string c in s, 0 when absent.
IndexIn(c, s) ==
    IF \E i \in 1..Len(s) : CharAt(s, i) = c
    THEN CHOOSE i \in 1..Len(s) : CharAt(s, i) = c
    ELSE 0

\* Code-point rank of a character.
Ord(c) == IndexIn(c, Alphabet)

\* str.__lt__: code-point lexicographic order.
StrLess(a, b) ==
    \E i \in 1..(Len(b)) :
        /\ i <= Len(a) + 1
        /\ SubSeq(a, 1, i - 1) = SubSeq(b, 1, i - 1)
        /\ \/ i = Len(a) + 1
           \/ i <= Len(a) /\ Ord(CharAt(a, i)) < Ord(CharAt(b, i))

\* str.startswith(prefix)
StartsWith(s, prefix) ==
    Len(prefix) <= Len(s) /\ SubSeq(s, 1, Len(prefix)) = prefix

\* str.endswith(suffix)
EndsWith(s, suffix) ==
    Len(suffix) <= Len(s) /\ SubSeq(s, Len(s) - Len(suffix) + 1, Len(s)) = suffix

\* '/' in s, for a one-character needle
Contains(s, c) == \E i \in 1..Len(s) : CharAt(s, i) = c

LowerChar(c) ==
    IF IndexIn(c, UpperCase) = 0 THEN c
    ELSE CharAt(LowerCase, IndexIn(c, UpperCase))

\* str.lower()
RECURSIVE Lower(_)
Lower(s) == IF Len(s) = 0 THEN "" ELSE LowerChar(Head(s)) \o Lower(Tail(s))

\* str.strip(): leading and trailing white space removed.
RECURSIVE LStrip(_)
LStrip(s) == IF Len(s) > 0 /\ Head(s) = " " THEN LStrip(Tail(s)) ELSE s

RECURSIVE RStrip(_)
RStrip(s) ==
    IF Len(s) > 0 /\ CharAt(s, Len(s)) = " "
    THEN RStrip(SubSeq(s, 1, Len(s) - 1))
    ELSE s

Strip(s) == RStrip(LStrip(s))

\* sorted(set of str): ascending sequence of the elements of S.
RECURSIVE Sorted(_)
Sorted(S) ==
    IF S = {} THEN <<>>
    ELSE LET m == CHOOSE x \in S : \A y \in S \ {x} : StrLess(x, y)
         IN  <<m>> \o Sorted(S \ {m})

(***************************************************************************)
(* Python dicts keep insertion order: a dict is a sequence of entries.     *)
(***************************************************************************)

DictKeys(d) == [i \in 1..Len(d) |-> d[i].k]

DictHas(d, key) == \E i \in 1..Len(d) : d[i].k = key

DictGet(d, key) == d[CHOOSE i \in 1..Len(d) : d[i].k = key].v

\* d[key] = value: an existing key keeps its position, a new key goes last.
DictSet(d, key, value) ==
    IF DictHas(d, key)
    THEN [i \in 1..Len(d) |-> IF d[i].k = key THEN [k |-> key, v |-> value] ELSE d[i]]
    ELSE Append(d, [k |-> key, v |-> value])

\* defaultdict(int): d[key] += n
DictIncrement(d, key, n) ==
    DictSet(d, key, (IF DictHas(d, key) THEN DictGet(d, key) ELSE 0) + n)

(***************************************************************************)
(* State                                                                   *)
(***************************************************************************)

VARIABLES   \* scan_for_secret_patterns
    tree,           \* the must-gather tree being scanned
    run,            \* 1: first scan of the tree, 2: a second scan of it
    pattern_i,      \* index into sample_patterns of the outer loop
    yielded,        \* paths the current glob has yielded so far
    scanned_files,
    findings,       \* the defaultdict(int), in insertion order
    scan_pc,        \* "idle", "loop", "returned", "raised", "synthesized"
    opens,          \* per file: times open() was called on it in this scan
    reads,          \* per file: times its content was matched in this scan
    first_result    \* how the first scan ended, and the tally it returned

VARIABLES   \* discover_domain_names
    domains,        \* the set being built
    route_i,        \* index into route_patterns of the outer loop
    dom_n,          \* paths the globs have yielded so far
    dom_pc,         \* "idle", "loop", "returned", "raised"
    candidates      \* every re.findall match of the files read so far

VARIABLES   \* discover_proprietary_keywords
    kw_pc,          \* "idle", "namespaces", "pods", "returned", "raised"
    kw_n,           \* paths the two globs have yielded so far
    manifest,       \* the namespace file of the last iteration
    scanned         \* pod manifests read so far

VARIABLES   \* generate_config and main
    exists,             \* os.path.exists(must_gather_path)
    in_tree,            \* what the three passes find in the tree
    secret_patterns,    \* what scan_for_secret_patterns returned
    domain_names,       \* what discover_domain_names returned
    keywords,           \* the keywords set: built, then returned
    config,             \* the config dict
    output,             \* the file at output_file
    output0,            \* the file at output_file as the run started
    failure,            \* the error that ended the run, "" if none
    exit_code,          \* -1 while running
    main_pc             \* "idle", "start", "scan", "domains", "keywords",
                        \* "build", "open", "dump", "report", "exited"

scanVars == <<tree, run, pattern_i, yielded, scanned_files, findings, scan_pc,
              opens, reads, first_result>>

domVars == <<domains, route_i, dom_n, dom_pc, candidates>>

kwVars == <<kw_pc, kw_n, manifest, scanned>>

genVars == <<secret_patterns, domain_names, keywords, config>>

mainVars == <<exists, in_tree, output, output0, failure, exit_code, main_pc>>

vars == <<scanVars, domVars, kwVars, genVars, mainVars>>

(***************************************************************************)
(* The catalog and the input trees                                         *)
(***************************************************************************)

\* The secret signatures, in the order the dict literal lists them.
SECRET_PATTERNS == <<
    [k |-> "aws_access_key",     v |-> "AKIA[0-9A-Z]{16}"],
    [k |-> "aws_secret_key",     v |-> "aws_secret_access_key\\s*[:=]\\s*[A-Za-z0-9/+=]{40}"],
    [k |-> "github_token",       v |-> "(ghp_[A-Za-z0-9]{36}|github_pat_[A-Za-z0-9_]{82})"],
    [k |-> "slack_token",        v |-> "xox[pbar]-[0-9]{12}-[0-9]{12}-[0-9]{12}-[a-z0-9]{32}"],
    [k |-> "google_api_key",     v |-> "AIza[0-9A-Za-z-_]{35}"],
    [k |-> "private_key_header", v |-> "-----BEGIN (RSA |DSA |EC |OPENSSH )?PRIVATE KEY-----"],
    [k |-> "azure_client_id",    v |-> "[0-9a-f]{8}-[0-9a-f]{4}-[0-9a-f]{4}-[0-9a-f]{4}-[0-9a-f]{12}"],
    [k |-> "jwt_token",          v |-> "eyJ[A-Za-z0-9_-]+\\.eyJ[A-Za-z0-9_-]+\\.[A-Za-z0-9_-]+"],
    [k |-> "generic_api_key",    v |-> "api[_-]?key[_-]?[=:]\\s*['\"]?[A-Za-z0-9_\\-]{20,}['\"]?"] >>

SecretTypes == {SECRET_PATTERNS[i].k : i \in 1..Len(SECRET_PATTERNS)}

\* Number of files of a scanned tree.
NFiles == 3

\* max_files of scan_for_secret_patterns (500 in the script), scaled to the
\* trees of the model so that a tree can hold more candidates than the budget.
max_files == 2

Files == 1..NFiles

\* Where a candidate file lives, and the sample_patterns (1: cluster-scoped
\* yaml, 2: namespaces yaml, 3: pod logs) whose glob yields it.  '**' matches
\* zero or more directories, so a manifest under
\* cluster-scoped-resources/core/namespaces/ is yielded by globs 1 and 2.
Locations == <<
    [path |-> "cluster-scoped-resources/core/nodes/*.yaml",      globs |-> {1}],
    [path |-> "cluster-scoped-resources/core/namespaces/*.yaml", globs |-> {1, 2}],
    [path |-> "namespaces/app/pods/web/web/logs/*.log",          globs |-> {3}] >>

\* What lstat/open do on a candidate:
\*   "ok"         a regular file under 10 MiB that opens and reads
\*   "big"        a regular file of 10 MiB or more
\*   "unreadable" a regular file under 10 MiB whose open or read raises
\*   "statfail"   a path whose stat raises (its directory is not searchable)
Statuses == <<"ok", "big", "unreadable", "statfail">>

\* What re.findall finds in the first MiB of a file: matches per signature.
Contents == <<
    [t \in SecretTypes |-> IF t = "aws_access_key" THEN 1 ELSE 0],
    [t \in SecretTypes |-> IF t = "github_token" THEN 2 ELSE 0],
    [t \in SecretTypes |-> CASE t = "aws_access_key" -> 2
                              [] t = "github_token"   -> 1
                              [] OTHER                -> 0] >>

NProfiles == Len(Locations) * Len(Statuses) * Len(Contents)

Profile(n) ==
    [ loc     |-> Locations[(n % Len(Locations)) + 1],
      status  |-> Statuses[((n \div Len(Locations)) % Len(Statuses)) + 1],
      content |-> Contents[(n \div (Len(Locations) * Len(Statuses))) + 1] ]

\* The trees: every assignment of a profile to each file.  Files are
\* interchangeable (the enumeration order is free), so one tree stands for
\* all its renamings.
Trees ==
    { [f \in Files |-> Profile(ix[f])] :
        ix \in { jx \in [Files -> 0..(NProfiles - 1)] :
                   \A f, g \in Files : f < g => jx[f] <= jx[g] } }

(***************************************************************************)
(* scan_for_secret_patterns                                                *)
(***************************************************************************)

sample_patterns == <<1, 2, 3>>

\* Path(must_gather_path).glob(sample_patterns[p]) as a set of paths.
GlobHits(t, p) == {f \in Files : p \in t[f].loc.globs}

\* for secret_type, pattern in SECRET_PATTERNS.items(): ... findings[...] += len(matches)
RECURSIVE MatchCatalog(_, _, _)
MatchCatalog(fnd, content, i) ==
    IF i > Len(SECRET_PATTERNS) THEN fnd
    ELSE LET secret_type == SECRET_PATTERNS[i].k
             matches     == content[secret_type]
         IN  MatchCatalog(IF matches > 0
                          THEN DictIncrement(fnd, secret_type, matches)
                          ELSE fnd,
                          content, i + 1)

\* Off-by-one variants of the budget test, against which the budget
\* properties are checked to be sensitive.
BudgetExhaustedLate(n) == n > max_files

BudgetExhaustedEarly(n) == n + 1 >= max_files

\* if scanned_files >= max_files: break
BudgetExhausted(n) == n >= max_files

ZeroCount == [f \in Files |-> 0]

\* The locals of scan_for_secret_patterns as the outer loop is entered.
ScanStart ==
    /\ pattern_i = 1
    /\ yielded = {}
    /\ scanned_files = 0
    /\ findings = <<>>
    /\ scan_pc = "loop"
    /\ opens = ZeroCount
    /\ reads = ZeroCount

\* One iteration of the inner loop: the glob yields file_path.
ScanFile(file_path) ==
    /\ scan_pc = "loop"
    /\ pattern_i <= Len(sample_patterns)
    /\ file_path \in GlobHits(tree, sample_patterns[pattern_i]) \ yielded
    /\ IF BudgetExhausted(scanned_files)
       THEN \* break: the rest of this glob is dropped
            /\ pattern_i' = pattern_i + 1
            /\ yielded' = {}
            /\ UNCHANGED <<scanned_files, findings, scan_pc, opens, reads>>
       ELSE LET st == tree[file_path].status IN
            /\ yielded' = yielded \cup {file_path}
            /\ pattern_i' = pattern_i
            /\ CASE st = "statfail" ->
                      \* is_file()/stat() is outside the try
                      /\ scan_pc' = "raised"
                      /\ UNCHANGED <<scanned_files, findings, opens, reads>>
                 [] st = "big" ->
                      UNCHANGED <<scanned_files, findings, scan_pc, opens, reads>>
                 [] st = "unreadable" ->
                      \* except Exception: pass
                      /\ opens' = [opens EXCEPT ![file_path] = @ + 1]
                      /\ UNCHANGED <<scanned_files, findings, scan_pc, reads>>
                 [] st = "ok" ->
                      /\ opens' = [opens EXCEPT ![file_path] = @ + 1]
                      /\ reads' = [reads EXCEPT ![file_path] = @ + 1]
                      /\ findings' = MatchCatalog(findings, tree[file_path].content, 1)
                      /\ scanned_files' = scanned_files + 1
                      /\ UNCHANGED scan_pc
    /\ UNCHANGED <<tree, run, first_result, genVars, domVars, kwVars, mainVars>>

\* The current glob is exhausted: the outer loop takes the next pattern.
ScanNextPattern ==
    /\ scan_pc = "loop"
    /\ pattern_i <= Len(sample_patterns)
    /\ GlobHits(tree, sample_patterns[pattern_i]) \ yielded = {}
    /\ pattern_i' = pattern_i + 1
    /\ yielded' = {}
    /\ UNCHANGED <<tree, run, scanned_files, findings, scan_pc, opens, reads,
                   first_result, genVars, domVars, kwVars, mainVars>>

\* return findings
ScanReturn ==
    /\ scan_pc = "loop"
    /\ pattern_i > Len(sample_patterns)
    /\ scan_pc' = "returned"
    /\ UNCHANGED <<tree, run, pattern_i, yielded, scanned_files, findings, opens,
                   reads, first_result, genVars, domVars, kwVars, mainVars>>

\* The script is run again on the unchanged tree.
ScanAgain ==
    /\ run = 1
    /\ scan_pc \in {"returned", "raised"}
    /\ run' = 2
    /\ first_result' = [status |-> scan_pc, findings |-> findings]
    /\ pattern_i' = 1
    /\ yielded' = {}
    /\ scanned_files' = 0
    /\ findings' = <<>>
    /\ scan_pc' = "loop"
    /\ opens' = ZeroCount
    /\ reads' = ZeroCount
    /\ UNCHANGED <<tree, genVars, domVars, kwVars, mainVars>>

(***************************************************************************)
(* generate_config: the configuration built from the three findings        *)
(***************************************************************************)

DecimalDigits == "0123456789"

\* str(i) for i >= 0
RECURSIVE Decimal(_)
Decimal(i) ==
    IF i < 10 THEN CharAt(DecimalDigits, i + 1)
    ELSE Decimal(i \div 10) \o CharAt(DecimalDigits, (i % 10) + 1)

RECURSIVE ZeroPad(_, _)
ZeroPad(s, width) == IF Len(s) >= width THEN s ELSE ZeroPad("0" \o s, width)

\* f'{i:04d}': decimal, zero-padded to a width of at least 4.
Format04d(i) == ZeroPad(Decimal(i), 4)

\* The numbering with enumerate's default start of 0, the variant the
\* 1-based numbering is checked against.
RECURSIVE KeywordReplacementsFromZero(_, _, _)
KeywordReplacementsFromZero(table, ordered, n) ==
    IF n > Len(ordered) THEN table
    ELSE KeywordReplacementsFromZero(
            DictSet(table, ordered[n], "keyword-" \o Format04d(n - 1)),
            ordered, n + 1)

\* for i, keyword in enumerate(sorted(keywords), 1):
\*     keyword_replacements[keyword] = f'keyword-{i:04d}'
RECURSIVE KeywordReplacements(_, _, _)
KeywordReplacements(table, ordered, n) ==
    IF n > Len(ordered) THEN table
    ELSE KeywordReplacements(
            DictSet(table, ordered[n], "keyword-" \o Format04d(n)),
            ordered, n + 1)

\* for secret_type in secret_patterns.keys(): if secret_type in SECRET_PATTERNS: append
RECURSIVE RegexRules(_, _)
RegexRules(keys, i) ==
    IF i > Len(keys) THEN <<>>
    ELSE (IF DictHas(SECRET_PATTERNS, keys[i])
          THEN << [type   |-> "Regex",
                   regex  |-> DictGet(SECRET_PATTERNS, keys[i]),
                   target |-> "FileContents"] >>
          ELSE <<>>)
         \o RegexRules(keys, i + 1)

KeywordsRule(kw) ==
    IF kw # {}
    THEN << [type        |-> "Keywords",
             target      |-> "All",
             replacement |-> KeywordReplacements(<<>>, Sorted(kw), 1)] >>
    ELSE <<>>

DomainRule(dn) ==
    IF dn # {}
    THEN << [type            |-> "Domain",
             replacementType |-> "Consistent",
             target          |-> "All",
             domainNames     |-> Sorted(dn)] >>
    ELSE <<>>

StandardObfuscation == <<
    [type |-> "IP",  replacementType |-> "Consistent", target |-> "All"],
    [type |-> "MAC", replacementType |-> "Consistent", target |-> "All"] >>

StandardOmissions == <<
    [type |-> "Kubernetes", kubernetesResource |-> [kind |-> "Secret"]],
    [type |-> "Kubernetes", kubernetesResource |-> [kind |-> "ConfigMap"]],
    [type |-> "Kubernetes",
     kubernetesResource |-> [kind       |-> "CertificateSigningRequest",
                             apiVersion |-> "certificates.k8s.io/v1"]] >>

EmptyConfig == [obfuscate |-> <<>>, omit |-> <<>>]

\* The rules with Domain ahead of Keywords, the variant the order of the
\* list is checked against.
BuildConfigDomainFirst(sp, dn, kw) ==
    [ obfuscate |-> RegexRules(DictKeys(sp), 1) \o DomainRule(dn) \o KeywordsRule(kw)
                    \o StandardObfuscation,
      omit      |-> StandardOmissions ]

\* The config dict generate_config builds before writing it.
BuildConfig(sp, dn, kw) ==
    [ obfuscate |-> RegexRules(DictKeys(sp), 1) \o KeywordsRule(kw) \o DomainRule(dn)
                    \o StandardObfuscation,
      omit      |-> StandardOmissions ]

\* generate_config after the scan returned: the config is built from its tally.
\* (The trees of SpecScan hold no route and no custom namespace: the other
\* two passes return empty sets.)
SynthesizeScan ==
    /\ scan_pc = "returned"
    /\ scan_pc' = "synthesized"
    /\ secret_patterns' = findings
    /\ config' = BuildConfig(findings, domain_names, keywords)
    /\ UNCHANGED <<tree, run, pattern_i, yielded, scanned_files, findings, opens,
                   reads, first_result, domain_names, keywords, domVars, kwVars,
                   mainVars>>

\* Each specification below runs one part of the script; the state of the
\* other parts is idle.
ScanIdle ==
    /\ tree = <<>>
    /\ run = 0
    /\ pattern_i = 0
    /\ yielded = {}
    /\ scanned_files = 0
    /\ findings = <<>>
    /\ scan_pc = "idle"
    /\ opens = <<>>
    /\ reads = <<>>
    /\ first_result = [status |-> "none", findings |-> <<>>]

DomIdle ==
    /\ domains = {}
    /\ route_i = 0
    /\ dom_n = 0
    /\ dom_pc = "idle"
    /\ candidates = {}

NoManifest == [status |-> "none"]

KwIdle ==
    /\ kw_pc = "idle"
    /\ kw_n = 0
    /\ manifest = NoManifest
    /\ scanned = 0

GenIdle ==
    /\ secret_patterns = <<>>
    /\ domain_names = {}
    /\ keywords = {}
    /\ config = EmptyConfig

NoFile == [present |-> FALSE, chunks |-> <<>>]

MainIdle ==
    /\ exists = TRUE
    /\ in_tree = <<>>
    /\ output = NoFile
    /\ output0 = NoFile
    /\ failure = ""
    /\ exit_code = -1
    /\ main_pc = "idle"

InitScan ==
    /\ tree \in Trees
    /\ ScanStart
    /\ run = 1
    /\ first_result = [status |-> "none", findings |-> <<>>]
    /\ DomIdle /\ KwIdle /\ GenIdle /\ MainIdle

NextScan ==
    \/ \E file_path \in Files : ScanFile(file_path)
    \/ ScanNextPattern
    \/ ScanReturn
    \/ ScanAgain
    \/ SynthesizeScan

SpecScan == InitScan /\ [][NextScan]_vars

(***************************************************************************)
(* Properties of scan_for_secret_patterns                                  *)
(***************************************************************************)

\* The per-type counts of a tally, whatever the order of its keys.
Counts(tally) ==
    [t \in SecretTypes |-> IF DictHas(tally, t) THEN DictGet(tally, t) ELSE 0]

RECURSIVE SumOver(_, _)
SumOver(S, g) ==
    IF S = {} THEN 0
    ELSE LET x == CHOOSE y \in S : TRUE IN g[x] + SumOver(S \ {x}, g)

Scannable(t, f) == t[f].status = "ok"

\* Glob hits whose content can be scanned, a file counted once per glob.
ScannableHits(t) ==
    SumOver(Files, [f \in Files |->
        IF Scannable(t, f) THEN Cardinality(t[f].loc.globs) ELSE 0])

\* The catalog entries with a positive count in the tally, in catalog order.
CatalogOrderRules(tally) ==
    LET hit == SelectSeq(SECRET_PATTERNS, LAMBDA e : Counts(tally)[e.k] > 0)
    IN  [i \in 1..Len(hit) |->
            [type |-> "Regex", regex |-> hit[i].v, target |-> "FileContents"]]

RegexPart(cfg) == SelectSeq(cfg.obfuscate, LAMBDA r : r.type = "Regex")

\* C2: the Regex rules of the obfuscate list are the signatures with a
\* positive tally count, in catalog order, whatever order the scan met them in.
C2_RegexRulesInCatalogOrder ==
    scan_pc = "synthesized" => RegexPart(config) = CatalogOrderRules(findings)

\* C6: the budget.  At most max_files files are scanned; a file that is too
\* large or cannot be read leaves the count alone and a count that moves is
\* one more ok file; once the budget is reached the scan opens no further
\* file and does not raise.
C6_BudgetState ==
    /\ scanned_files <= max_files
    /\ scanned_files >= max_files => scan_pc # "raised"

C6_BudgetStep ==
    /\ scanned_files' # scanned_files /\ run' = run =>
          /\ scanned_files' = scanned_files + 1
          /\ \E f \in Files : Scannable(tree, f) /\ yielded' = yielded \cup {f}
    /\ \A f \in Files :
          (yielded' = yielded \cup {f} /\ f \notin yielded /\ ~Scannable(tree, f))
             => scanned_files' = scanned_files
    /\ scanned_files >= max_files /\ run' = run => opens' = opens /\ reads' = reads

C6_BudgetNeverExceeded == []C6_BudgetState /\ [][C6_BudgetStep]_scanVars

\* A scan that reached the budget with candidates left over, one of them
\* unreadable and already skipped.
C6_Witness ==
    /\ scan_pc = "returned"
    /\ scanned_files = max_files
    /\ \E f \in Files : Scannable(tree, f) /\ reads[f] = 0
    /\ \E f \in Files : tree[f].status = "unreadable" /\ opens[f] > 0

\* C7 as stated: two scans of one tree that both return, return the same
\* counts, however many candidates the tree holds.
C7_OrderIndependent ==
    (run = 2 /\ scan_pc = "returned" /\ first_result.status = "returned")
        => Counts(findings) = Counts(first_result.findings)

\* C7 amended: two scans of one tree that both return, return the same counts
\* when the scannable glob hits do not exceed the max-files budget.
C7_OrderIndependentWithinBudget ==
    (/\ run = 2 /\ scan_pc = "returned" /\ first_result.status = "returned"
     /\ ScannableHits(tree) <= max_files)
        => Counts(findings) = Counts(first_result.findings)

\* Two scans within the budget that met the secret types in different orders.
C7_Witness ==
    /\ run = 2 /\ scan_pc = "returned" /\ first_result.status = "returned"
    /\ ScannableHits(tree) <= max_files
    /\ DictKeys(findings) # DictKeys(first_result.findings)
    /\ Counts(findings) = Counts(first_result.findings)

\* C10: every file is scanned at most once, uses one unit of budget and
\* adds its matches to the tally once.
C10_EachFileScannedOnce ==
    /\ \A f \in Files : reads[f] <= 1
    /\ scanned_files = Cardinality({f \in Files : reads[f] > 0})
    /\ scan_pc = "returned" =>
          \A t \in SecretTypes :
             Counts(findings)[t] =
                SumOver({f \in Files : reads[f] > 0},
                        [f \in Files |-> tree[f].content[t]])

(***************************************************************************)
(* discover_domain_names                                                   *)
(*                                                                         *)
(* The tree is not fixed in advance here: each iteration the glob yields   *)
(* some file, whose kind and matches are chosen as it is yielded.          *)
(***************************************************************************)

\* Paths the globs of one discovery pass yield, at most.
MaxYield == 3

\* Matches re.findall returns for one file, at most.
MaxMatches == 2

exclude_domains == {
    "cluster.local", "svc", "pod", "node",
    "openshift.io", "k8s.io", "kubernetes.io",
    "redhat.com", "coreos.com" }

route_patterns == <<
    "**/cluster-scoped-resources/config.openshift.io/ingresses/*.yaml",
    "**/namespaces/**/route.openshift.io/routes/*.yaml",
    "**/namespaces/**/networking.k8s.io/ingresses/*.yaml" >>

\* Values the group of domain_pattern captures (re.IGNORECASE lets upper
\* case through).
RawDomains == {
    "apps.acme.com", "Apps.Acme.COM", "console.apps.openshift.io",
    "API.Cluster.Local", "db.internal.node", "redhat.com.acme.net" }

SeqsUpTo(S, n) == UNION {[1..m -> S] : m \in 0..n}

\* What is_file/open/read do on a yielded path:
\*   "ok"         a regular file that opens, decodes and (for yaml) parses
\*   "notfile"    a directory
\*   "unreadable" open, read, decoding or parsing raises: nothing of the file
\*                is seen
\*   "statfail"   is_file() raises (the directory is not searchable)
FileStatuses == {"ok", "notfile", "unreadable", "statfail"}

\* The exclusion as an exact match, the variant the suffix rule is checked
\* against.
ExcludedDomainExact(domain) == domain \in exclude_domains

\* any(domain.endswith(excluded) for excluded in exclude_domains)
ExcludedDomain(domain) == \E excluded \in exclude_domains : EndsWith(domain, excluded)

\* for match in matches: domain = match.lower().strip(); ... domains.add(domain)
RECURSIVE AddDomains(_, _, _)
AddDomains(dset, matches, i) ==
    IF i > Len(matches) THEN dset
    ELSE LET domain == Strip(Lower(matches[i]))
         IN  AddDomains(IF ~ExcludedDomain(domain) THEN dset \cup {domain} ELSE dset,
                        matches, i + 1)

Range(q) == {q[i] : i \in 1..Len(q)}

DomainStart ==
    /\ domains = {}
    /\ route_i = 1
    /\ dom_n = 0
    /\ dom_pc = "loop"
    /\ candidates = {}

\* One iteration of the inner loop: the glob yields a path.
DomainFile(status, matches) ==
    /\ dom_pc = "loop"
    /\ route_i <= Len(route_patterns)
    /\ dom_n < MaxYield
    /\ dom_n' = dom_n + 1
    /\ CASE status = "statfail" ->
              /\ dom_pc' = "raised"
              /\ UNCHANGED <<domains, candidates>>
         [] status = "notfile" ->
              UNCHANGED <<domains, candidates, dom_pc>>
         [] status = "unreadable" ->
              \* except Exception: pass
              UNCHANGED <<domains, candidates, dom_pc>>
         [] status = "ok" ->
              /\ domains' = AddDomains(domains, matches, 1)
              /\ candidates' = candidates \cup Range(matches)
              /\ UNCHANGED dom_pc
    /\ UNCHANGED <<route_i, scanVars, kwVars, genVars, mainVars>>

\* The current glob is exhausted.
DomainNextPattern ==
    /\ dom_pc = "loop"
    /\ route_i <= Len(route_patterns)
    /\ route_i' = route_i + 1
    /\ UNCHANGED <<domains, dom_n, dom_pc, candidates, scanVars, kwVars, genVars,
                   mainVars>>

\* return domains
DomainReturn ==
    /\ dom_pc = "loop"
    /\ route_i > Len(route_patterns)
    /\ dom_pc' = "returned"
    /\ domain_names' = domains
    /\ UNCHANGED <<domains, route_i, dom_n, candidates, scanVars, kwVars,
                   secret_patterns, keywords, config, mainVars>>

InitDomains == DomainStart /\ ScanIdle /\ KwIdle /\ GenIdle /\ MainIdle

NextDomains ==
    \/ \E status \in FileStatuses :
          \E matches \in (IF status = "ok" THEN SeqsUpTo(RawDomains, MaxMatches)
                                          ELSE {<<>>}) :
             DomainFile(status, matches)
    \/ DomainNextPattern
    \/ DomainReturn

SpecDomains == InitDomains /\ [][NextDomains]_vars

\* C8: the set returned is exactly the lowercased, trimmed candidates of the
\* files read that end with no string of the exclusion set.
C8_DomainsAreTheCandidatesNotExcluded ==
    dom_pc = "returned" =>
        /\ \A d \in domain_names : \A x \in exclude_domains : ~EndsWith(d, x)
        /\ domain_names =
              { Strip(Lower(c)) : c \in
                  { m \in candidates :
                      \A x \in exclude_domains : ~EndsWith(Strip(Lower(m)), x) } }

\* A scan that met a candidate ending in an excluded suffix without being
\* equal to it, and returned a mixed-case candidate lowercased.
C8_Witness ==
    /\ dom_pc = "returned"
    /\ "console.apps.openshift.io" \in candidates
    /\ "Apps.Acme.COM" \in candidates
    /\ domain_names = {"apps.acme.com"}

(***************************************************************************)
(* discover_proprietary_keywords                                           *)
(***************************************************************************)

\* Labels of one namespace manifest, at most.
MaxLabels == 2

\* The cap on pod manifests read (100 in the script), scaled to MaxYield.
max_pods == 2

exclude_prefixes == {
    "openshift-", "kube-", "default", "istio-", "knative-",
    "prometheus", "grafana", "etcd", "apiserver", "controller" }

\* A YAML scalar as yaml.safe_load returns it: a str, or an int.
PyStr(x) == [type |-> "str", s |-> x]
PyInt(x) == [type |-> "int", s |-> x]

NamespaceNames ==
    {PyStr("openshift-monitoring"), PyStr("acme-billing"), PyStr("qa"), PyInt("2024")}

LabelValues ==
    {PyStr("payments"), PyStr("qa"), PyStr("acme/team"), PyStr("kube-system"),
     PyInt("2024")}

\* What yaml.safe_load returns for a namespace file:
\*   "null"          an empty document (None)
\*   "no_metadata"   a document without a metadata key
\*   "metadata_null" metadata: with no value (None)
\*   "no_name"       a metadata mapping without name
\*   "named"         a metadata mapping with name
\* and for metadata.labels: "absent", "null" (labels: with no value), "map".
NoLabels == [kind |-> "absent", values |-> <<>>]

NoDocument == [kind |-> "null", name |-> PyStr(""), labels |-> NoLabels]

Documents ==
    { [kind |-> k, name |-> PyStr(""), labels |-> NoLabels] :
        k \in {"null", "no_metadata", "metadata_null"} }
    \cup
    { [kind |-> "no_name", name |-> PyStr(""), labels |-> l] :
        l \in {NoLabels, [kind |-> "map", values |-> <<PyStr("payments")>>]} }
    \cup
    { [kind |-> "named", name |-> n, labels |-> l] :
        n \in NamespaceNames,
        l \in {NoLabels, [kind |-> "null", values |-> <<>>]}
              \cup { [kind |-> "map", values |-> v] :
                        v \in SeqsUpTo(LabelValues, MaxLabels) } }

\* The exclusion as an exact match, the variant the prefix rule is checked
\* against.
PlatformPrefixedExact(x) == x \in exclude_prefixes

\* any(x.startswith(prefix) for prefix in exclude_prefixes)
PlatformPrefixed(x) == \E prefix \in exclude_prefixes : StartsWith(x, prefix)

\* The loop over data['metadata']['labels'].items(): the values added, and
\* whether a value raised ('/' not in value is a TypeError for an int).
RECURSIVE AddLabels(_, _, _)
AddLabels(added, values, i) ==
    IF i > Len(values) THEN [added |-> added, raised |-> FALSE]
    ELSE LET value == values[i] IN
         IF value.type # "str" THEN [added |-> added, raised |-> TRUE]
         ELSE AddLabels(
                 IF /\ ~Contains(value.s, "/")
                    /\ Len(value.s) > 3
                    /\ ~PlatformPrefixed(value.s)
                 THEN added \cup {value.s}
                 ELSE added,
                 values, i + 1)

\* The body of the try block for one parsed namespace document: what it
\* adds to keywords before it ends or raises.
NamespaceBody(data) ==
    CASE data.kind \in {"null", "no_metadata", "no_name"} ->
            [added |-> {}, raised |-> FALSE]
      [] data.kind = "metadata_null" ->
            \* 'name' in None
            [added |-> {}, raised |-> TRUE]
      [] data.kind = "named" ->
            IF data.name.type # "str"
            THEN \* ns_name.startswith
                 [added |-> {}, raised |-> TRUE]
            ELSE LET ns_name == data.name.s
                     first   == IF ~PlatformPrefixed(ns_name) THEN {ns_name} ELSE {}
                 IN  CASE data.labels.kind = "absent" ->
                            [added |-> first, raised |-> FALSE]
                       [] data.labels.kind = "null" ->
                            \* None.items()
                            [added |-> first, raised |-> TRUE]
                       [] data.labels.kind = "map" ->
                            AddLabels(first, data.labels.values, 1)

KeywordStart ==
    /\ keywords = {}
    /\ kw_pc = "namespaces"
    /\ kw_n = 0
    /\ manifest = NoManifest
    /\ scanned = 0

\* One iteration of the namespace loop: the glob yields a path.
NamespaceFile(status, data) ==
    /\ kw_pc = "namespaces"
    /\ kw_n < MaxYield
    /\ kw_n' = kw_n + 1
    /\ manifest' = [status |-> status, data |-> data]
    /\ CASE status = "statfail" ->
              /\ kw_pc' = "raised"
              /\ UNCHANGED keywords
         [] status \in {"notfile", "unreadable"} ->
              UNCHANGED <<keywords, kw_pc>>
         [] status = "ok" ->
              \* an exception leaves what was added and is swallowed
              /\ keywords' = keywords \cup NamespaceBody(data).added
              /\ UNCHANGED kw_pc
    /\ UNCHANGED <<scanned, scanVars, domVars, secret_patterns, domain_names,
                   config, mainVars>>

\* The namespace glob is exhausted: the pod loop starts.
NamespacesDone ==
    /\ kw_pc = "namespaces"
    /\ kw_pc' = "pods"
    /\ manifest' = NoManifest
    /\ scanned' = 0
    /\ UNCHANGED <<kw_n, scanVars, domVars, genVars, mainVars>>

\* What image_pattern captures: (registry, org) pairs.
ImageMatches == {
    <<"quay.io", "openshift-release-dev">>,
    <<"registry.acme.com", "payments">>,
    <<"docker.io", "acme">> }

\* for registry, org in matches: ...
RECURSIVE AddImages(_, _, _)
AddImages(kset, matches, i) ==
    IF i > Len(matches) THEN kset
    ELSE LET registry == matches[i][1]
             org      == matches[i][2]
             k1 == IF registry \notin {"quay.io", "registry.redhat.io", "gcr.io", "docker.io"}
                   THEN kset \cup {registry} ELSE kset
             k2 == IF org \notin {"openshift-release-dev", "openshift", "redhat"}
                   THEN k1 \cup {org} ELSE k1
         IN  AddImages(k2, matches, i + 1)

\* One iteration of the pod loop: the glob yields a path.
PodFile(status, matches) ==
    /\ kw_pc = "pods"
    /\ kw_n < MaxYield
    /\ kw_n' = kw_n + 1
    /\ IF scanned >= max_pods
       THEN \* break, then return keywords
            /\ kw_pc' = "returned"
            /\ UNCHANGED <<keywords, scanned>>
       ELSE CASE status = "statfail" ->
                   /\ kw_pc' = "raised"
                   /\ UNCHANGED <<keywords, scanned>>
              [] status \in {"notfile", "unreadable"} ->
                   UNCHANGED <<keywords, scanned, kw_pc>>
              [] status = "ok" ->
                   /\ keywords' = AddImages(keywords, matches, 1)
                   /\ scanned' = scanned + 1
                   /\ UNCHANGED kw_pc
    /\ UNCHANGED <<manifest, scanVars, domVars, secret_patterns, domain_names,
                   config, mainVars>>

\* The pod glob is exhausted: return keywords
PodsDone ==
    /\ kw_pc = "pods"
    /\ kw_pc' = "returned"
    /\ UNCHANGED <<kw_n, manifest, scanned, scanVars, domVars, genVars, mainVars>>

InitKeywords ==
    /\ KeywordStart
    /\ secret_patterns = <<>>
    /\ domain_names = {}
    /\ config = EmptyConfig
    /\ ScanIdle /\ DomIdle /\ MainIdle

NextKeywords ==
    \/ \E status \in FileStatuses :
          \E data \in (IF status = "ok" THEN Documents ELSE {NoDocument}) :
             NamespaceFile(status, data)
    \/ NamespacesDone
    \/ \E status \in FileStatuses :
          \E matches \in (IF status = "ok" THEN SeqsUpTo(ImageMatches, MaxMatches)
                                          ELSE {<<>>}) :
             PodFile(status, matches)
    \/ PodsDone

SpecKeywords == InitKeywords /\ [][NextKeywords]_vars

(***************************************************************************)
(* Properties of the namespace pass                                        *)
(***************************************************************************)

AllStr(values) == \A i \in 1..Len(values) : values[i].type = "str"

\* A namespace manifest of the expected shape: it parses, metadata.name is a
\* string, and metadata.labels is absent or maps to strings.
WellFormed(m) ==
    /\ m.status = "ok"
    /\ m.data.kind = "named"
    /\ m.data.name.type = "str"
    /\ m.data.labels.kind \in {"absent", "map"}
    /\ AllStr(m.data.labels.values)

\* A file the pass fails on: stat, open, read, decoding or parsing raises,
\* or a field of the parsed document has an unexpected shape.
FileFails(m) ==
    \/ m.status \in {"statfail", "unreadable"}
    \/ /\ m.status = "ok"
       /\ \/ m.data.kind = "metadata_null"
          \/ /\ m.data.kind = "named"
             /\ \/ m.data.name.type # "str"
                \/ m.data.labels.kind = "null"
                \/ ~AllStr(m.data.labels.values)

\* The namespace loop has just run one iteration.
NamespaceIteration == kw_pc = "namespaces" /\ kw_n' = kw_n + 1

\* C9: a well-formed manifest adds its name iff the name starts with no
\* platform prefix, and each label value iff it has no '/', is longer than 3
\* and starts with no platform prefix, whether or not the name was added.
C9_Step ==
    (NamespaceIteration /\ WellFormed(manifest')) =>
        keywords' = keywords
            \cup { n \in {manifest'.data.name.s} :
                     \A prefix \in exclude_prefixes : ~StartsWith(n, prefix) }
            \cup { v \in {x.s : x \in Range(manifest'.data.labels.values)} :
                     /\ \A i \in 1..Len(v) : CharAt(v, i) # "/"
                     /\ Len(v) > 3
                     /\ \A prefix \in exclude_prefixes : ~StartsWith(v, prefix) }

C9_NamespaceKeepRule == [][C9_Step]_vars

\* The manifest of a platform namespace whose label value was kept although
\* its name was not, next to a label value that was dropped.
C9_Witness ==
    /\ kw_pc = "namespaces"
    /\ WellFormed(manifest)
    /\ manifest.data.name.s = "openshift-monitoring"
    /\ manifest.data.labels.values = <<PyStr("payments"), PyStr("kube-system")>>
    /\ keywords = {"payments"}

\* C4: a file the pass fails on neither ends the pass nor adds anything.
C4_Step ==
    (NamespaceIteration /\ FileFails(manifest')) =>
        /\ kw_pc' = "namespaces"
        /\ keywords' = keywords

C4_FailingFileContributesNothing == [][C4_Step]_vars

(***************************************************************************)
(* generate_config on the findings of the three passes                     *)
(***************************************************************************)

\* Secret types in a tally, at most.
MaxTypes == 2

\* The tallies scan_for_secret_patterns can return: its keys are catalog
\* names in the order the scan first met them, its counts are positive.
\* generate_config reads the keys only: each type is given one count, its
\* position in the catalog.
Tallies ==
    { [i \in 1..Len(ks) |->
          [k |-> ks[i],
           v |-> CHOOSE c \in 1..Len(SECRET_PATTERNS) : SECRET_PATTERNS[c].k = ks[i]]] :
        ks \in UNION { { q \in [1..n -> SecretTypes] :
                          \A i, j \in 1..n : i # j => q[i] # q[j] } :
                      n \in 0..MaxTypes } }

KeywordUniverse == {"acme", "acme-billing", "Zeta", "payments"}

DomainUniverse == {"redhat.com.acme.net", "apps.acme.com"}

Inputs ==
    [tally : Tallies, domains : SUBSET DomainUniverse, keywords : SUBSET KeywordUniverse]

\* The config dict is filled in from the three findings.
Build ==
    /\ main_pc = "build"
    /\ config = EmptyConfig
    /\ config' = BuildConfig(secret_patterns, domain_names, keywords)
    /\ main_pc' = "open"
    /\ UNCHANGED <<secret_patterns, domain_names, keywords, exists, in_tree, output,
                   output0, failure, exit_code, scanVars, domVars, kwVars>>

\* generate_config as its three passes have returned.
InitConfig ==
    /\ in_tree \in Inputs
    /\ secret_patterns = in_tree.tally
    /\ domain_names = in_tree.domains
    /\ keywords = in_tree.keywords
    /\ config = EmptyConfig
    /\ main_pc = "build"
    /\ exists = TRUE
    /\ output = NoFile
    /\ output0 = NoFile
    /\ failure = ""
    /\ exit_code = -1
    /\ ScanIdle /\ DomIdle /\ KwIdle

NextConfig == Build

SpecConfig == InitConfig /\ [][NextConfig]_vars

Types(rules) == [i \in 1..Len(rules) |-> rules[i].type]

\* C1: the obfuscate list is some Regex rules, then one Keywords rule iff
\* there are keywords, then one Domain rule iff there are domains, then IP,
\* then MAC; with nothing found it is IP, MAC.
C1_ObfuscateShape ==
    main_pc = "open" =>
        LET types == Types(config.obfuscate) IN
        /\ \E r \in 0..Len(types) :
              /\ \A i \in 1..r : types[i] = "Regex"
              /\ SubSeq(types, r + 1, Len(types)) =
                     (IF keywords # {} THEN <<"Keywords">> ELSE <<>>)
                     \o (IF domain_names # {} THEN <<"Domain">> ELSE <<>>)
                     \o <<"IP", "MAC">>
        /\ (secret_patterns = <<>> /\ keywords = {} /\ domain_names = {})
              => types = <<"IP", "MAC">>

\* A config built from secrets and domains but no keywords.
C1_Witness ==
    /\ main_pc = "open"
    /\ Len(secret_patterns) = 2
    /\ keywords = {}
    /\ domain_names # {}
    /\ Types(config.obfuscate) = <<"Regex", "Regex", "Domain", "IP", "MAC">>

\* int(s) for a string of decimal digits
RECURSIVE ParseDecimal(_)
ParseDecimal(s) ==
    IF Len(s) = 0 THEN 0
    ELSE 10 * ParseDecimal(SubSeq(s, 1, Len(s) - 1))
         + (IndexIn(CharAt(s, Len(s)), DecimalDigits) - 1)

\* The replacement table of the Keywords rule of a config.
ReplacementTable(cfg) ==
    SelectSeq(cfg.obfuscate, LAMBDA r : r.type = "Keywords")[1].replacement

\* Number of keywords that sort up to and including k.
Rank(k, kws) == Cardinality({x \in kws : x = k \/ StrLess(x, k)})

\* C5: every keyword has one token, keyword-NNNN with NNNN its 1-based
\* position in sorted order, zero-padded to 4 digits; distinct keywords have
\* distinct tokens and a smaller keyword has a smaller number.
C5_ReplacementTable ==
    (main_pc = "open" /\ keywords # {}) =>
        LET table == ReplacementTable(config)
            token(k) == DictGet(table, k)
            number(k) == ParseDecimal(SubSeq(token(k), 9, Len(token(k))))
        IN  /\ Len(table) = Cardinality(keywords)
            /\ Range(DictKeys(table)) = keywords
            /\ \A k \in keywords :
                  /\ SubSeq(token(k), 1, 8) = "keyword-"
                  /\ Len(token(k)) = 12
                  /\ \A i \in 9..12 : IndexIn(CharAt(token(k), i), DecimalDigits) # 0
                  /\ number(k) = Rank(k, keywords)
            /\ \A a, b \in keywords : a # b => token(a) # token(b)
            /\ \A a, b \in keywords : StrLess(a, b) => number(a) < number(b)

\* The table of four keywords, an upper-case one and a prefix of another
\* among them.
C5_Witness ==
    /\ main_pc = "open"
    /\ keywords = KeywordUniverse
    /\ ReplacementTable(config) = <<
          [k |-> "Zeta",         v |-> "keyword-0001"],
          [k |-> "acme",         v |-> "keyword-0002"],
          [k |-> "acme-billing", v |-> "keyword-0003"],
          [k |-> "payments",     v |-> "keyword-0004"] >>

(***************************************************************************)
(* main: the whole run, from the path check to the exit code               *)
(*                                                                         *)
(* The three passes are modelled step by step above; here each one either  *)
(* returns what the tree holds for it or raises (a stat error reaches      *)
(* generate_config).  yaml.dump writes the document to the opened file     *)
(* piece by piece; a piece is one line of the list structure.              *)
(***************************************************************************)

Chunk(key, rule) == [key |-> key, rule |-> rule]

NoRule == [type |-> ""]

\* yaml.dump(config, f, default_flow_style=False, sort_keys=False) as the
\* pieces it writes, in order.
Serialize(cfg) ==
    <<Chunk("config", NoRule), Chunk("obfuscate", NoRule)>>
    \o [i \in 1..Len(cfg.obfuscate) |-> Chunk("-", cfg.obfuscate[i])]
    \o <<Chunk("omit", NoRule)>>
    \o [i \in 1..Len(cfg.omit) |-> Chunk("-", cfg.omit[i])]

\* The findings main is run on: at most one secret type, keyword and domain.
MainInputs ==
    { i \in Inputs : /\ Len(i.tally) <= 1
                     /\ Cardinality(i.keywords) <= 1
                     /\ Cardinality(i.domains) <= 1 }

\* What output_file may hold before the run: nothing, or an earlier config.
EarlierOutputs ==
    {NoFile, [present |-> TRUE, chunks |-> Serialize(BuildConfig(<<>>, {}, {}))]}

\* sys.exit(1) after the error message
Fail(why) ==
    /\ failure' = why
    /\ exit_code' = 1
    /\ main_pc' = "exited"

\* if not os.path.exists(must_gather_path): ... sys.exit(1)
CheckPath ==
    /\ main_pc = "start"
    /\ IF exists
       THEN main_pc' = "scan" /\ UNCHANGED <<failure, exit_code>>
       ELSE Fail("missing")
    /\ UNCHANGED <<exists, in_tree, output, output0, genVars, scanVars, domVars, kwVars>>

\* secret_patterns = scan_for_secret_patterns(must_gather_path)
RunScan ==
    /\ main_pc = "scan"
    /\ \/ /\ secret_patterns' = in_tree.tally
          /\ main_pc' = "domains"
          /\ UNCHANGED <<failure, exit_code>>
       \/ Fail("scan") /\ UNCHANGED secret_patterns
    /\ UNCHANGED <<exists, in_tree, output, output0, domain_names, keywords, config,
                   scanVars, domVars, kwVars>>

\* domain_names = discover_domain_names(must_gather_path)
RunDomains ==
    /\ main_pc = "domains"
    /\ \/ /\ domain_names' = in_tree.domains
          /\ main_pc' = "keywords"
          /\ UNCHANGED <<failure, exit_code>>
       \/ Fail("domains") /\ UNCHANGED domain_names
    /\ UNCHANGED <<exists, in_tree, output, output0, secret_patterns, keywords, config,
                   scanVars, domVars, kwVars>>

\* keywords = discover_proprietary_keywords(must_gather_path)
RunKeywords ==
    /\ main_pc = "keywords"
    /\ \/ /\ keywords' = in_tree.keywords
          /\ main_pc' = "build"
          /\ UNCHANGED <<failure, exit_code>>
       \/ Fail("keywords") /\ UNCHANGED keywords
    /\ UNCHANGED <<exists, in_tree, output, output0, secret_patterns, domain_names,
                   config, scanVars, domVars, kwVars>>

\* with open(output_file, 'w') as f: the file is created or truncated, or
\* open raises and leaves it alone.
OpenOutput ==
    /\ main_pc = "open"
    /\ \/ /\ output' = [present |-> TRUE, chunks |-> <<>>]
          /\ main_pc' = "dump"
          /\ UNCHANGED <<failure, exit_code>>
       \/ Fail("open") /\ UNCHANGED output
    /\ UNCHANGED <<exists, in_tree, output0, genVars, scanVars, domVars, kwVars>>

\* yaml.dump(config, f, ...): every piece is written, or a write raises
\* after n pieces; the with block closes the file either way.
Dump ==
    /\ main_pc = "dump"
    /\ LET document == Serialize(config) IN
       \/ /\ output' = [output EXCEPT !.chunks = document]
          /\ main_pc' = "report"
          /\ UNCHANGED <<failure, exit_code>>
       \/ \E n \in 0..(Len(document) - 1) :
             /\ output' = [output EXCEPT !.chunks = SubSeq(document, 1, n)]
             /\ Fail("write")
    /\ UNCHANGED <<exists, in_tree, output0, genVars, scanVars, domVars, kwVars>>

\* The two prints after the with block, then the return to main and the
\* normal exit; the first print holds a non-ASCII character and raises
\* UnicodeEncodeError on a stdout that cannot encode it.
Report ==
    /\ main_pc = "report"
    /\ \/ /\ main_pc' = "exited"
          /\ exit_code' = 0
          /\ UNCHANGED failure
       \/ Fail("print")
    /\ UNCHANGED <<exists, in_tree, output, output0, genVars, scanVars, domVars, kwVars>>

Init ==
    /\ exists \in BOOLEAN
    /\ in_tree \in MainInputs
    /\ output0 \in EarlierOutputs
    /\ output = output0
    /\ failure = ""
    /\ exit_code = -1
    /\ main_pc = "start"
    /\ GenIdle /\ ScanIdle /\ DomIdle /\ KwIdle

Next ==
    \/ CheckPath
    \/ RunScan
    \/ RunDomains
    \/ RunKeywords
    \/ Build
    \/ OpenOutput
    \/ Dump
    \/ Report

Spec == Init /\ [][Next]_vars

\* The document the run was to write is all there.
CompleteDocument(file) ==
    /\ file.present
    /\ config # EmptyConfig
    /\ file.chunks = Serialize(config)

\* C3: a run that ends in failure exits non-zero and leaves the output path
\* untouched or holding a complete document.
C3_FailureLeavesNoPartialOutput ==
    (main_pc = "exited" /\ failure # "") =>
        /\ exit_code # 0
        /\ output = output0 \/ CompleteDocument(output)

====
